---------------------------- MODULE Spec2Model ----------------------------
(***************************************************************************)
(* A model of rawIDE (src/src/rawIDE.py): the line buffer with its         *)
(* snapshot undo/redo (class Buffer), the command interpreter              *)
(* (RawIDE.handle_command), the modal key loop (RawIDE.run_curses) and the *)
(* viewport (RawIDE.ensure_cursor_visible).                                *)
(*                                                                         *)
(* A character is a one-character string, a Python str is a sequence of    *)
(* characters: "ab" is <<"a","b">>.  A path is a str; None is the empty    *)
(* sequence (the code tests the filename with `not filename`, and no path  *)
(* the program can obtain is the empty string).                            *)
(***************************************************************************)
EXTENDS Integers, Sequences, FiniteSets, TLC

(***************************************************************************)
(* Bounds of the model.                                                    *)
(***************************************************************************)
\* Buffer(undo_limit=...), 200 in the program: the depth of the undo stack
\* of the session's buffer ...
UndoLimit == 1
\* ... and of the buffer that SpecHistory drives.
HistoryLimit == 2
\* SpecViewport: the largest row and column of a cursor or a scroll origin,
\* and how far the terminal is larger than the smallest one with a text
\* area (3 rows, 2 columns).
ViewMax == 4
ViewExtra == 2
\* SpecScroll: the file the session starts on has up to ScrollRows empty
\* lines before a line of up to ScrollCols characters; the terminal is up to
\* ScrollExtra larger than the smallest one.
ScrollRows == 2
ScrollCols == 1
ScrollExtra == 1
\* The largest document the modelled user types: the length of its text,
\* line breaks included.
MaxText == 1
\* The terminal of the session: stdscr.getmaxyx() = (TermRows, TermCols).
TermRows == 3
TermCols == 2
\* How many end-of-iteration checks a transient status message outlives
\* (how many keys the user presses within its three seconds).
MsgTTL == 1
\* SpecHistory: the longest sequence of logged editing operations.
MaxOps == 3
TabText == 5

(***************************************************************************)
(* Python str and list primitives.                                         *)
(***************************************************************************)
Min(a, b) == IF a < b THEN a ELSE b

\* s[:n] for n >= 0
Prefix(s, n) == SubSeq(s, 1, Min(n, Len(s)))

\* s[n:] for n >= 0
Suffix(s, n) == SubSeq(s, n + 1, Len(s))

\* del l[i]  (i is 0-based)
DelAt(l, i) == SubSeq(l, 1, i) \o SubSeq(l, i + 2, Len(l))

\* l.insert(i, x)  (i is 0-based)
InsertAt(l, i, x) == Prefix(l, i) \o <<x>> \o Suffix(l, i)

\* The characters str.isspace() holds of, among those of the model.
Whitespace == {" ", "\t", "\n", "\r", "\f"}

\* The characters str.splitlines() breaks a line at, among those of the model
\* ("\r\n" counts once).
LineBoundary == {"\n", "\r", "\f"}

None == <<>>

(***************************************************************************)
(* class Buffer.  A buffer is a record; each method is an operator from    *)
(* the buffer before the call to the buffer after it.                      *)
(***************************************************************************)
\* Buffer(undo_limit=limit)
NewBuffer(limit) ==
    [lines |-> << <<>> >>, filename |-> None, cx |-> 0, cy |-> 0,
     changed |-> FALSE, undo_stack |-> <<>>, redo_stack |-> <<>>,
     undo_limit |-> limit]

\* _snapshot: (list(self.lines), self.cx, self.cy)
Snapshot(b) == <<b.lines, b.cx, b.cy>>

\* _restore_snapshot as it would be if it also took the buffer back to an
\* unnamed one.
RestoreSnapshotDropsFilename(b, snap) ==
    [b EXCEPT !.lines = snap[1], !.cx = snap[2], !.cy = snap[3],
              !.filename = None, !.changed = TRUE]

\* _restore_snapshot as it would be without `self.changed = True`.
RestoreSnapshotKeepsChanged(b, snap) ==
    [b EXCEPT !.lines = snap[1], !.cx = snap[2], !.cy = snap[3]]

RestoreSnapshot(b, snap) ==
    [b EXCEPT !.lines = snap[1], !.cx = snap[2], !.cy = snap[3],
              !.changed = TRUE]

\* _push_undo as it would be with the cap applied to the wrong end: the
\* snapshot just pushed is the one dropped.
PushUndoDropsNewest(b) ==
    LET pushed == Append(b.undo_stack, Snapshot(b))
    IN  [b EXCEPT !.undo_stack =
            IF Len(pushed) > b.undo_limit THEN b.undo_stack ELSE pushed]

\* _push_undo as it would be without the cap.
PushUndoNoCap(b) ==
    [b EXCEPT !.undo_stack = Append(b.undo_stack, Snapshot(b))]

PushUndo(b) ==
    LET pushed == Append(b.undo_stack, Snapshot(b))
    IN  [b EXCEPT !.undo_stack =
            IF Len(pushed) > b.undo_limit THEN Tail(pushed) ELSE pushed]

ClearRedo(b) == [b EXCEPT !.redo_stack = <<>>]

\* undo() as it would be if it took the snapshot for the redo stack after
\* restoring instead of before.
UndoSavesRestored(b) ==
    IF b.undo_stack = <<>>
    THEN [buffer |-> b, ret |-> FALSE]
    ELSE LET n    == Len(b.undo_stack)
             snap == b.undo_stack[n]
             b1   == RestoreSnapshot(
                         [b EXCEPT !.undo_stack = SubSeq(@, 1, n - 1)], snap)
         IN  [buffer |-> [b1 EXCEPT !.redo_stack = Append(@, Snapshot(b1))],
              ret |-> TRUE]

\* undo(): [buffer, ret]
Undo(b) ==
    IF b.undo_stack = <<>>
    THEN [buffer |-> b, ret |-> FALSE]
    ELSE LET n    == Len(b.undo_stack)
             b1   == [b EXCEPT !.redo_stack = Append(@, Snapshot(b))]
             snap == b1.undo_stack[n]
             b2   == [b1 EXCEPT !.undo_stack = SubSeq(@, 1, n - 1)]
         IN  [buffer |-> RestoreSnapshot(b2, snap), ret |-> TRUE]

\* redo(): [buffer, ret]
Redo(b) ==
    IF b.redo_stack = <<>>
    THEN [buffer |-> b, ret |-> FALSE]
    ELSE LET n    == Len(b.redo_stack)
             b1   == [b EXCEPT !.undo_stack = Append(@, Snapshot(b))]
             snap == b1.redo_stack[n]
             b2   == [b1 EXCEPT !.redo_stack = SubSeq(@, 1, n - 1)]
         IN  [buffer |-> RestoreSnapshot(b2, snap), ret |-> TRUE]

\* insert_char as it would be without its call of _clear_redo.
InsertCharKeepsRedo(b, ch) ==
    LET b1   == PushUndo(b)
        line == b1.lines[b1.cy + 1]
    IN  [b1 EXCEPT !.lines[b1.cy + 1] =
                       Prefix(line, b1.cx) \o ch \o Suffix(line, b1.cx),
                   !.cx = b1.cx + Len(ch),
                   !.changed = TRUE]

\* insert_char as it would be if a str of several characters were inserted
\* by one call for each of them.
RECURSIVE InsertCharEach(_, _)
InsertCharEach(b, ch) ==
    IF ch = <<>> THEN b
    ELSE LET b1   == ClearRedo(PushUndo(b))
             line == b1.lines[b1.cy + 1]
         IN  InsertCharEach(
                 [b1 EXCEPT !.lines[b1.cy + 1] =
                                Prefix(line, b1.cx) \o <<Head(ch)>>
                                    \o Suffix(line, b1.cx),
                            !.cx = b1.cx + 1,
                            !.changed = TRUE],
                 Tail(ch))

\* insert_char(ch): ch is a str, not only one character (Tab gives four)
InsertChar(b, ch) ==
    LET b1   == ClearRedo(PushUndo(b))
        line == b1.lines[b1.cy + 1]
    IN  [b1 EXCEPT !.lines[b1.cy + 1] =
                       Prefix(line, b1.cx) \o ch \o Suffix(line, b1.cx),
                   !.cx = b1.cx + Len(ch),
                   !.changed = TRUE]

\* Whether backspace() gets past its early return.
BackspaceActs(b) == ~(b.cx = 0 /\ b.cy = 0)

\* backspace as it would be without the early return at the document start.
BackspaceAlwaysRecords(b) ==
    LET b1 == ClearRedo(PushUndo(b))
    IN  IF b1.cx > 0
        THEN LET line == b1.lines[b1.cy + 1]
             IN  [b1 EXCEPT !.lines[b1.cy + 1] =
                                Prefix(line, b1.cx - 1) \o Suffix(line, b1.cx),
                            !.cx = b1.cx - 1,
                            !.changed = TRUE]
        ELSE IF b1.cy > 0
        THEN LET prev == b1.lines[b1.cy]
                 cur  == b1.lines[b1.cy + 1]
                 joined == [b1.lines EXCEPT ![b1.cy] = prev \o cur]
             IN  [b1 EXCEPT !.lines = DelAt(joined, b1.cy),
                            !.cy = b1.cy - 1,
                            !.cx = Len(prev),
                            !.changed = TRUE]
        ELSE b1

Backspace(b) ==
    IF b.cx = 0 /\ b.cy = 0 THEN b
    ELSE LET b1 == ClearRedo(PushUndo(b))
         IN  IF b1.cx > 0
             THEN LET line == b1.lines[b1.cy + 1]
                  IN  [b1 EXCEPT !.lines[b1.cy + 1] =
                                     Prefix(line, b1.cx - 1) \o Suffix(line, b1.cx),
                                 !.cx = b1.cx - 1,
                                 !.changed = TRUE]
             ELSE IF b1.cy > 0
             THEN LET prev == b1.lines[b1.cy]
                      cur  == b1.lines[b1.cy + 1]
                      joined == [b1.lines EXCEPT ![b1.cy] = prev \o cur]
                  IN  [b1 EXCEPT !.lines = DelAt(joined, b1.cy),
                                 !.cy = b1.cy - 1,
                                 !.cx = Len(prev),
                                 !.changed = TRUE]
             ELSE b1

Newline(b) ==
    LET b1    == ClearRedo(PushUndo(b))
        line  == b1.lines[b1.cy + 1]
        left  == Prefix(line, b1.cx)
        right == Suffix(line, b1.cx)
    IN  [b1 EXCEPT !.lines = InsertAt([b1.lines EXCEPT ![b1.cy + 1] = left],
                                      b1.cy + 1, right),
                   !.cy = b1.cy + 1,
                   !.cx = 0,
                   !.changed = TRUE]

\* move_left as it would be if it marked the buffer changed like the
\* editing methods do.
MoveLeftMarksChanged(b) ==
    IF b.cx > 0 THEN [b EXCEPT !.cx = b.cx - 1, !.changed = TRUE]
    ELSE IF b.cy > 0
         THEN [b EXCEPT !.cy = b.cy - 1, !.cx = Len(b.lines[b.cy]),
                        !.changed = TRUE]
         ELSE b

MoveLeft(b) ==
    IF b.cx > 0 THEN [b EXCEPT !.cx = b.cx - 1]
    ELSE IF b.cy > 0
         THEN [b EXCEPT !.cy = b.cy - 1, !.cx = Len(b.lines[b.cy])]
         ELSE b

\* move_right as it would be with <= for < in the test against the line
\* length.
MoveRightPastEnd(b) ==
    IF b.cx <= Len(b.lines[b.cy + 1]) THEN [b EXCEPT !.cx = b.cx + 1]
    ELSE IF b.cy < Len(b.lines) - 1
         THEN [b EXCEPT !.cy = b.cy + 1, !.cx = 0]
         ELSE b

MoveRight(b) ==
    IF b.cx < Len(b.lines[b.cy + 1]) THEN [b EXCEPT !.cx = b.cx + 1]
    ELSE IF b.cy < Len(b.lines) - 1
         THEN [b EXCEPT !.cy = b.cy + 1, !.cx = 0]
         ELSE b

MoveUp(b) ==
    IF b.cy > 0
    THEN [b EXCEPT !.cy = b.cy - 1, !.cx = Min(b.cx, Len(b.lines[b.cy]))]
    ELSE b

MoveDown(b) ==
    IF b.cy < Len(b.lines) - 1
    THEN [b EXCEPT !.cy = b.cy + 1, !.cx = Min(b.cx, Len(b.lines[b.cy + 2]))]
    ELSE b

(***************************************************************************)
(* Files.  The filesystem maps a path to [exists, data]; data is the text  *)
(* of the file.  The outcome of the one filesystem call a command makes is *)
(* an input: "ok", "err" (the call raises OSError and leaves the file as   *)
(* it was) or "trunc" (open(..., 'w') truncated the file and the write     *)
(* raised).                                                                *)
(***************************************************************************)
IOOutcomes == {"ok", "err", "trunc"}

\* The outcomes told apart by a call that reads.
ReadOutcomes == {"ok", "err"}

NoFile == [exists |-> FALSE, data |-> <<>>]

FileOf(f, path) == IF path \in DOMAIN f THEN f[path] ELSE NoFile

\* '\n'.join(lines)
RECURSIVE JoinLines(_)
JoinLines(ls) ==
    IF ls = <<>> THEN <<>>
    ELSE IF Len(ls) = 1 THEN ls[1]
    ELSE ls[1] \o <<"\n">> \o JoinLines(Tail(ls))

\* Reading in text mode (newline=None): "\r\n" and "\r" arrive as "\n".
RECURSIVE UniversalNewlines(_)
UniversalNewlines(s) ==
    IF s = <<>> THEN <<>>
    ELSE IF s[1] = "\r"
         THEN <<"\n">> \o UniversalNewlines(
                  IF Len(s) > 1 /\ s[2] = "\n" THEN Suffix(s, 2) ELSE Tail(s))
         ELSE <<s[1]>> \o UniversalNewlines(Tail(s))

\* str.splitlines(): cur is the line being read, acc the lines read so far.
RECURSIVE SplitLinesFrom(_, _, _)
SplitLinesFrom(s, cur, acc) ==
    IF s = <<>> THEN (IF cur = <<>> THEN acc ELSE Append(acc, cur))
    ELSE IF s[1] \in LineBoundary
         THEN SplitLinesFrom(
                  IF s[1] = "\r" /\ Len(s) > 1 /\ s[2] = "\n"
                  THEN Suffix(s, 2) ELSE Tail(s),
                  <<>>, Append(acc, cur))
         ELSE SplitLinesFrom(Tail(s), Append(cur, s[1]), acc)

SplitLines(s) == SplitLinesFrom(s, <<>>, <<>>)

\* The reading of load_from_file as it would be without `if not data`.
ReadLinesNoFallback(data) ==
    SplitLines(UniversalNewlines(data))

\* f.read().splitlines(), and [''] for no line at all
ReadLines(data) ==
    LET ls == SplitLines(UniversalNewlines(data))
    IN  IF ls = <<>> THEN << <<>> >> ELSE ls

\* load_from_file as it would be if it reset the buffer before open().
LoadFromFileResetsFirst(b, filename, f, io) ==
    LET b1 == [ClearRedo(PushUndo(b)) EXCEPT !.lines = << <<>> >>,
                                             !.cx = 0, !.cy = 0]
    IN  IF ~FileOf(f, filename).exists \/ io # "ok"
        THEN [buffer |-> b1, exc |-> TRUE]
        ELSE [buffer |-> [b1 EXCEPT !.lines = ReadLines(f[filename].data),
                                    !.filename = filename,
                                    !.changed = FALSE],
              exc |-> FALSE]

\* load_from_file as it would be without `self._push_undo()`.
LoadFromFileNoPush(b, filename, f, io) ==
    LET b1 == ClearRedo(b)
    IN  IF ~FileOf(f, filename).exists \/ io # "ok"
        THEN [buffer |-> b1, exc |-> TRUE]
        ELSE [buffer |-> [b1 EXCEPT !.lines = ReadLines(f[filename].data),
                                    !.filename = filename,
                                    !.cx = 0,
                                    !.cy = 0,
                                    !.changed = FALSE],
              exc |-> FALSE]

\* load_from_file(filename): [buffer, exc]; exc when open() raised.
LoadFromFile(b, filename, f, io) ==
    LET b1 == ClearRedo(PushUndo(b))
    IN  IF ~FileOf(f, filename).exists \/ io # "ok"
        THEN [buffer |-> b1, exc |-> TRUE]
        ELSE [buffer |-> [b1 EXCEPT !.lines = ReadLines(f[filename].data),
                                    !.filename = filename,
                                    !.cx = 0,
                                    !.cy = 0,
                                    !.changed = FALSE],
              exc |-> FALSE]

\* save(filename) as it would be if `self.changed = False` came before the
\* test for a missing filename.
SaveMarksSavedFirst(b, filename, f, io) ==
    LET name == IF filename = None THEN b.filename ELSE filename
        c    == [b EXCEPT !.changed = FALSE]
    IN  IF name = None
        THEN [buffer |-> c, fs |-> f, exc |-> "ValueError"]
        ELSE IF io = "err"
        THEN [buffer |-> c, fs |-> f, exc |-> "OSError"]
        ELSE IF io = "trunc"
        THEN [buffer |-> c,
              fs |-> (name :> [exists |-> TRUE, data |-> <<>>]) @@ f,
              exc |-> "OSError"]
        ELSE [buffer |-> [c EXCEPT !.filename = name],
              fs |-> (name :> [exists |-> TRUE, data |-> JoinLines(b.lines)]) @@ f,
              exc |-> ""]

\* save(filename): [buffer, fs, exc]; exc is "" or the exception raised.
Save(b, filename, f, io) ==
    LET name == IF filename = None THEN b.filename ELSE filename
    IN  IF name = None
        THEN [buffer |-> b, fs |-> f, exc |-> "ValueError"]
        ELSE IF io = "err"
        THEN [buffer |-> b, fs |-> f, exc |-> "OSError"]
        ELSE IF io = "trunc"
        THEN [buffer |-> b,
              fs |-> (name :> [exists |-> TRUE, data |-> <<>>]) @@ f,
              exc |-> "OSError"]
        ELSE [buffer |-> [b EXCEPT !.filename = name, !.changed = FALSE],
              fs |-> (name :> [exists |-> TRUE, data |-> JoinLines(b.lines)]) @@ f,
              exc |-> ""]

(***************************************************************************)
(* The command interpreter.  A status message is modelled by its text      *)
(* without the values formatted into it.                                   *)
(***************************************************************************)
\* str.strip()
RECURSIVE LStrip(_)
LStrip(s) ==
    IF s # <<>> /\ s[1] \in Whitespace THEN LStrip(Tail(s)) ELSE s

RECURSIVE RStrip(_)
RStrip(s) ==
    IF s # <<>> /\ s[Len(s)] \in Whitespace
    THEN RStrip(SubSeq(s, 1, Len(s) - 1)) ELSE s

Strip(s) == RStrip(LStrip(s))

\* str.split(): cur is the word being read, acc the words read so far.
RECURSIVE SplitFrom(_, _, _)
SplitFrom(s, cur, acc) ==
    IF s = <<>> THEN (IF cur = <<>> THEN acc ELSE Append(acc, cur))
    ELSE IF s[1] \in Whitespace
         THEN SplitFrom(Tail(s), <<>>, IF cur = <<>> THEN acc ELSE Append(acc, cur))
         ELSE SplitFrom(Tail(s), Append(cur, s[1]), acc)

Split(s) == SplitFrom(s, <<>>, <<>>)

\* The last "." of a name that is not its first character starts the
\* extension (os.path.splitext(fname)[1]; the model's paths have no "/").
RECURSIVE ExtFrom(_, _)
ExtFrom(name, i) ==
    IF i <= 1 THEN <<>>
    ELSE IF name[i] = "." THEN Suffix(name, i - 1)
    ELSE ExtFrom(name, i - 1)

Splitext(name) == ExtFrom(name, Len(name))

RunnableExts ==
    { <<".", "p", "y">>, <<".", "c">>, <<".", "c", "p", "p">>,
      <<".", "c", "c">>, <<".", "c", "x", "x">>, <<".", "r", "s">> }

\* What a command leaves: the buffer, the filesystem, the status message it
\* set ("" when it set none), whether the session continues, and whether an
\* exception of Buffer.save / Buffer.load_from_file was caught on the way.
Outcome(b, f, msg, cont, exc) ==
    [buffer |-> b, fs |-> f, msg |-> msg, cont |-> cont, exc |-> exc]

\* open_file(filename)
OpenFile(b, filename, f, io) ==
    LET r == LoadFromFile(b, filename, f, io)
    IN  Outcome(r.buffer, f, IF r.exc THEN "Error opening" ELSE "Opened",
                TRUE, r.exc)

\* save_file(filename)
SaveFile(b, filename, f, io) ==
    LET r == Save(b, filename, f, io)
    IN  Outcome(r.buffer, r.fs, IF r.exc = "" THEN "Saved" ELSE "Error saving",
                TRUE, r.exc # "")

\* compile_and_run(): the program run is outside the model; its output is
\* shown in a popup, which changes nothing of the editor's state.
CompileAndRun(b, f, io) ==
    IF b.filename = None
    THEN Outcome(b, f, "No filename. Save first with :w", TRUE, FALSE)
    ELSE LET r == Save(b, None, f, io)
         IN  IF r.exc # ""
             THEN Outcome(r.buffer, r.fs, "Failed to save", TRUE, TRUE)
             ELSE IF Splitext(b.filename) \in RunnableExts
             THEN Outcome(r.buffer, r.fs, "", TRUE, FALSE)
             ELSE Outcome(r.buffer, r.fs, "Run/compile not supported", TRUE, FALSE)

\* handle_command, main == 'wq'
WqCommand(b, f, io) ==
    IF b.filename = None
    THEN Outcome(b, f, "Specify filename: :wq filename", TRUE, FALSE)
    ELSE [SaveFile(b, None, f, io) EXCEPT !.cont = FALSE]

\* The 'q' branch as it would be without the test of buffer.changed.
QuitCommandIgnoresChanged(args, b, f) ==
    Outcome(b, f, "", FALSE, FALSE)

\* handle_command, main == 'q'
QuitCommand(args, b, f) ==
    IF args # <<>> /\ args[1] = <<"!">>
    THEN Outcome(b, f, "", FALSE, FALSE)
    ELSE IF b.changed
    THEN Outcome(b, f, "Unsaved changes. Use :q! to quit without saving.",
                 TRUE, FALSE)
    ELSE Outcome(b, f, "", FALSE, FALSE)

\* handle_command(cmdline); cont = FALSE is "exit the editor".
HandleCommand(cmdline, b, f, io) ==
    LET cmd   == Strip(cmdline)
        parts == Split(cmd)
        main  == parts[1]
        args  == Tail(parts)
    IN  IF cmd = <<>> THEN Outcome(b, f, "", TRUE, FALSE)
        ELSE IF main = <<"w">>
        THEN IF args # <<>> THEN SaveFile(b, args[1], f, io)
             ELSE IF b.filename = None
             THEN Outcome(b, f, "Specify filename: :w filename", TRUE, FALSE)
             ELSE SaveFile(b, None, f, io)
        ELSE IF main = <<"w", "q">> THEN WqCommand(b, f, io)
        ELSE IF main = <<"q">> THEN QuitCommand(args, b, f)
        ELSE IF main = <<"r">> THEN CompileAndRun(b, f, io)
        ELSE IF main = <<"o", "p", "e", "n">>
        THEN IF args = <<>>
             THEN Outcome(b, f, "Usage: :open filename", TRUE, FALSE)
             ELSE OpenFile(b, args[1], f, io)
        ELSE IF main = <<"c", "d">>
        THEN IF args = <<>>
             THEN Outcome(b, f, "Usage: :cd directory", TRUE, FALSE)
             ELSE Outcome(b, f, IF io = "ok" THEN "cwd" ELSE "cd error", TRUE, FALSE)
        ELSE IF main = <<"m", "k", "d", "i", "r">>
        THEN IF args = <<>>
             THEN Outcome(b, f, "Usage: :mkdir dirname", TRUE, FALSE)
             ELSE Outcome(b, f, IF io = "ok" THEN "mkdir ok" ELSE "mkdir error",
                          TRUE, FALSE)
        ELSE IF main = <<"l", "s">>
        THEN Outcome(b, f, IF io = "ok" THEN "" ELSE "ls error", TRUE, FALSE)
        ELSE IF main = <<"h", "e", "l", "p">>
        THEN Outcome(b, f, "", TRUE, FALSE)
        ELSE Outcome(b, f, "Unknown command", TRUE, FALSE)

\* parts[0] of a command line, None for a blank one.
MainOf(cmdline) ==
    LET parts == Split(Strip(cmdline))
    IN  IF parts = <<>> THEN None ELSE parts[1]

\* Whether the command that left outcome r of buffer b got through
\* Buffer.save or Buffer.load_from_file without an exception.
Synced(cmdline, b, r) ==
    \/ r.msg \in {"Saved", "Opened"}
    \/ MainOf(cmdline) = <<"r">> /\ b.filename # None /\ ~r.exc

\* ensure_cursor_visible() as it would be if it scrolled by the size of the
\* text area instead of one less.
VisibleOriginOffByOne(b, top, left, h, w) ==
    << IF b.cy < top THEN b.cy
       ELSE IF b.cy >= top + (h - 2) THEN b.cy - (h - 2)
       ELSE top,
       IF b.cx < left THEN b.cx
       ELSE IF b.cx >= left + (w - 1) THEN b.cx - (w - 1)
       ELSE left >>

\* ensure_cursor_visible() as it would be if it took the text area for one
\* row and one column smaller than it is.
VisibleOriginSmallerArea(b, top, left, h, w) ==
    << IF b.cy < top THEN b.cy
       ELSE IF b.cy >= top + (h - 3) THEN b.cy - (h - 4)
       ELSE top,
       IF b.cx < left THEN b.cx
       ELSE IF b.cx >= left + (w - 2) THEN b.cx - (w - 3)
       ELSE left >>

\* ensure_cursor_visible() in a terminal of the given height and width:
\* <<top_line, left_col>> after the call.
VisibleOrigin(b, top, left, h, w) ==
    << IF b.cy < top THEN b.cy
       ELSE IF b.cy >= top + (h - 2) THEN b.cy - (h - 3)
       ELSE top,
       IF b.cx < left THEN b.cx
       ELSE IF b.cx >= left + (w - 1) THEN b.cx - (w - 2)
       ELSE left >>

(***************************************************************************)
(* The inputs of the model: the files on disk at start, the command lines  *)
(* typed at the prompt and the keys pressed.                               *)
(***************************************************************************)
FileA == <<"a", ".", "p", "y">>
FileB == <<"b">>
FileE == <<"e">>
Paths == {FileA, FileB, FileE}

\* The disk at start: FileA holds "a\n", FileB does not exist, FileE is
\* empty.
InitFS ==
    { [p \in Paths |-> IF p = FileA
                       THEN [exists |-> TRUE, data |-> <<"a", "\n">>]
                       ELSE IF p = FileE
                       THEN [exists |-> TRUE, data |-> <<>>]
                       ELSE NoFile] }

\* sys.argv[1], or None
StartArgs == {None, FileA}

CmdLines ==
    { <<>>, <<"w">>, <<"w", " ">> \o FileA, <<"w", "q">>,
      <<"q">>, <<"q", "!">>, <<"q", " ", "!">>, <<"r">>,
      <<"o", "p", "e", "n">>,
      <<"o", "p", "e", "n", " ">> \o FileA,
      <<"o", "p", "e", "n", " ">> \o FileB,
      <<"c", "d", " ", "d">>, <<"l", "s">>, <<"h", "e", "l", "p">> }

\* Key codes of stdscr.getch().
ESC == 27
CTRL_Z == 26
CTRL_U == 21
KEY_DOWN == 258
KEY_UP == 259
KEY_LEFT == 260
KEY_RIGHT == 261
KEY_BACKSPACE == 263
KEY_DC == 330
Arrows == {KEY_LEFT, KEY_RIGHT, KEY_UP, KEY_DOWN}
\* The Enter test as it would be if it knew carriage return only.
EnterKeysOnlyCR == {13}

EnterKeys == {10, 13}
BackspaceKeys == {127, KEY_BACKSPACE}

\* chr(ch), for the character keys of the model.
Chr(ch) ==
    CASE ch = 9 -> "\t"
      [] ch = 10 -> "\n"
      [] ch = 12 -> "\f"
      [] ch = 13 -> "\r"
      [] ch = 32 -> " "
      [] ch = 58 -> ":"
      [] ch = 97 -> "a"
      [] ch = 105 -> "i"
      [] ch = 120 -> "x"

\* ord('i'), ord(':')
OrdI == 105
OrdColon == 58

\* The keys pressed in editor mode that reach insert_char.
InsertKeys == {97}
\* The keys pressed that no branch handles.
OtherKeys == {120, KEY_DC}

(***************************************************************************)
(* The session: class RawIDE and the loop of run_curses.  A state is the   *)
(* editor waiting in getch(), after ensure_cursor_visible() and draw().    *)
(***************************************************************************)
VARIABLES
    buffer,      \* self.buffer
    mode,        \* self.mode: "command" or "editor"
    status,      \* the message of self.status; "" is the bare mode indicator
    msg_age,     \* end-of-iteration checks the message has outlived
    top_line,    \* self.top_line
    left_col,    \* self.left_col
    running,     \* FALSE once the loop has been left
    fs,          \* the files on disk
    last,        \* the operation of the last step: [op, arg, ret, exc]
    undone,      \* Snapshot before the undo of the last step, or None
    saved,       \* the lines as of the last save or load that succeeded
    height,      \* self.height
    width,       \* self.width
    phase,       \* SpecHistory: "setup", "ops" or "undo"
    opLog,       \* SpecHistory: Snapshot before each logged operation
    nUndo        \* SpecHistory: undo() calls made after the logged operations

vars == <<buffer, mode, status, msg_age, top_line, left_col, running, fs,
          last, undone, saved, height, width, phase, opLog, nUndo>>

screenVars == <<height, width>>

\* ensure_cursor_visible(): <<top_line, left_col>> after the call.
EnsureCursorVisible(b, top, left) ==
    VisibleOrigin(b, top, left, height, width)

historyVars == <<phase, opLog, nUndo>>

Last(op, arg, ret, exc) == [op |-> op, arg |-> arg, ret |-> ret, exc |-> exc]

\* main(argv) up to the first getch(): the file named on the command line is
\* opened (io is how its open() went), then set_mode('command') replaces
\* whatever status open_file set.
Main(arg, f, io) ==
    IF arg = None THEN NewBuffer(UndoLimit)
    ELSE OpenFile(NewBuffer(UndoLimit), arg, f, io).buffer

Init ==
    /\ fs \in InitFS
    /\ \E arg \in StartArgs, io \in {"ok", "err"} : buffer = Main(arg, fs, io)
    /\ mode = "command"
    /\ status = ""
    /\ msg_age = 0
    /\ height = TermRows
    /\ width = TermCols
    /\ top_line = EnsureCursorVisible(buffer, 0, 0)[1]
    /\ left_col = EnsureCursorVisible(buffer, 0, 0)[2]
    /\ running = TRUE
    /\ last = Last("init", <<>>, TRUE, FALSE)
    /\ undone = None
    /\ saved = buffer.lines
    /\ phase = "setup"
    /\ opLog = <<>>
    /\ nUndo = 0

\* The head of the next iteration: ensure_cursor_visible(), unless the loop
\* was left.
Redraw ==
    IF running'
    THEN /\ top_line' = EnsureCursorVisible(buffer', top_line, left_col)[1]
         /\ left_col' = EnsureCursorVisible(buffer', top_line, left_col)[2]
    ELSE UNCHANGED <<top_line, left_col>>

\* The end of an iteration that set no status: `if time.time() >
\* self.message_time`, the message is dropped once its three seconds are over.
Expire ==
    IF status = "" THEN UNCHANGED <<status, msg_age>>
    ELSE \/ status' = "" /\ msg_age' = 0
         \/ msg_age < MsgTTL /\ status' = status /\ msg_age' = msg_age + 1

\* status_message(msg): the message is younger than its timeout at the check
\* that ends the iteration.
SetStatus(msg) == status' = msg /\ msg_age' = 0

\* The size MaxText bounds.
TextLen(b) == Len(JoinLines(b.lines))

\* The ESC branch as it would be if the key toggled between the modes.
KeyEscToggles ==
    /\ running
    /\ mode' = IF mode = "command" THEN "editor" ELSE "command"
    /\ SetStatus("")
    /\ last' = Last("esc", <<>>, TRUE, FALSE)
    /\ undone' = None
    /\ running' = TRUE
    /\ UNCHANGED <<buffer, fs, saved, screenVars, historyVars>>
    /\ Redraw

\* ch == 27: set_mode('command'); continue
KeyEsc ==
    /\ running
    /\ mode' = "command"
    /\ SetStatus("")
    /\ last' = Last("esc", <<>>, TRUE, FALSE)
    /\ undone' = None
    /\ running' = TRUE
    /\ UNCHANGED <<buffer, fs, saved, screenVars, historyVars>>
    /\ Redraw

\* ch == 26: undo; continue
KeyUndo ==
    /\ running
    /\ \E r \in {Undo(buffer)} :
           /\ buffer' = r.buffer
           /\ SetStatus(IF r.ret THEN "Undo" ELSE "Nothing to undo")
           /\ last' = Last("undo", <<>>, r.ret, FALSE)
           /\ undone' = IF r.ret THEN Snapshot(buffer) ELSE None
    /\ running' = TRUE
    /\ UNCHANGED <<mode, fs, saved, screenVars, historyVars>>
    /\ Redraw

\* ch == 21: redo; continue
KeyRedo ==
    /\ running
    /\ \E r \in {Redo(buffer)} :
           /\ buffer' = r.buffer
           /\ SetStatus(IF r.ret THEN "Redo" ELSE "Nothing to redo")
           /\ last' = Last("redo", <<>>, r.ret, FALSE)
    /\ undone' = IF last.op = "undo" THEN undone ELSE None
    /\ running' = TRUE
    /\ UNCHANGED <<mode, fs, saved, screenVars, historyVars>>
    /\ Redraw

Move(ch, b) ==
    CASE ch = KEY_LEFT  -> MoveLeft(b)
      [] ch = KEY_RIGHT -> MoveRight(b)
      [] ch = KEY_UP    -> MoveUp(b)
      [] ch = KEY_DOWN  -> MoveDown(b)

\* An arrow key, in either mode.
KeyArrow ==
    /\ running
    /\ \E ch \in Arrows :
          /\ buffer' = Move(ch, buffer)
          /\ last' = Last("move", <<>>, TRUE, FALSE)
    /\ Expire
    /\ undone' = None
    /\ running' = TRUE
    /\ UNCHANGED <<mode, fs, saved, screenVars, historyVars>>
    /\ Redraw

\* 'i' in command mode: set_mode('editor')
KeyI ==
    /\ running
    /\ mode = "command"
    /\ mode' = "editor"
    /\ SetStatus("")
    /\ last' = Last("set_mode", <<>>, TRUE, FALSE)
    /\ undone' = None
    /\ running' = TRUE
    /\ UNCHANGED <<buffer, fs, saved, screenVars, historyVars>>
    /\ Redraw

\* The outcomes of the filesystem that make a difference to a command.
IOFor(cmdline) ==
    LET parts == Split(cmdline)
    IN  IF parts = <<>> \/ parts[1] \in {<<"q">>, <<"q", "!">>, <<"h", "e", "l", "p">>}
        THEN {"ok"}
        ELSE IF parts[1] \in {<<"w">>, <<"w", "q">>, <<"r">>}
        THEN IOOutcomes
        ELSE ReadOutcomes

\* The ':' branch as it would be if it were tested before the mode, like
\* ESC and the Ctrl keys.
KeyColonAnyMode(cmdlines) ==
    /\ running
    /\ \E cmdline \in cmdlines :
          \E io \in IOFor(cmdline) :
          \E r \in {HandleCommand(cmdline, buffer, fs, io)} :
              /\ buffer' = r.buffer
              /\ fs' = r.fs
              /\ running' = r.cont
              /\ last' = Last("handle_command", cmdline, r.cont, r.exc)
              /\ saved' = IF Synced(cmdline, buffer, r) THEN r.buffer.lines
                          ELSE saved
              /\ IF r.msg # "" THEN SetStatus(r.msg)
                 ELSE IF r.cont THEN Expire
                 ELSE UNCHANGED <<status, msg_age>>
    /\ undone' = None
    /\ UNCHANGED <<mode, screenVars, historyVars>>
    /\ Redraw

\* ':' in command mode: the line read at the prompt goes to handle_command;
\* the loop is left when it returns False.
KeyColon(cmdlines) ==
    /\ running
    /\ mode = "command"
    /\ \E cmdline \in cmdlines :
          \E io \in IOFor(cmdline) :
          \E r \in {HandleCommand(cmdline, buffer, fs, io)} :
              /\ buffer' = r.buffer
              /\ fs' = r.fs
              /\ running' = r.cont
              /\ last' = Last("handle_command", cmdline, r.cont, r.exc)
              /\ saved' = IF Synced(cmdline, buffer, r) THEN r.buffer.lines
                          ELSE saved
              /\ IF r.msg # "" THEN SetStatus(r.msg)
                 ELSE IF r.cont THEN Expire
                 ELSE UNCHANGED <<status, msg_age>>
    /\ undone' = None
    /\ UNCHANGED <<mode, screenVars, historyVars>>
    /\ Redraw

\* A key no branch handles: any other key in command mode, a key above 255
\* in editor mode.
KeyOthers(keys) ==
    /\ running
    /\ \E ch \in keys :
          /\ ch \notin {ESC, CTRL_Z, CTRL_U} \cup Arrows
          /\ \/ mode = "command" /\ ch \notin {OrdI, OrdColon}
             \/ mode = "editor" /\ ch \notin EnterKeys \cup BackspaceKeys
                                /\ ~(0 <= ch /\ ch <= 255)
          /\ last' = Last("ignored", <<>>, TRUE, FALSE)
    /\ Expire
    /\ undone' = None
    /\ running' = TRUE
    /\ UNCHANGED <<buffer, mode, fs, saved, screenVars, historyVars>>
    /\ Redraw

KeyOther == KeyOthers(OtherKeys)

\* Backspace as it would be if it were tested before the mode, like ESC and
\* the Ctrl keys.
KeyBackspaceAnyMode ==
    /\ running
    /\ buffer' = Backspace(buffer)
    /\ last' = Last("backspace", <<>>, BackspaceActs(buffer), FALSE)
    /\ Expire
    /\ undone' = None
    /\ running' = TRUE
    /\ UNCHANGED <<mode, fs, saved, screenVars, historyVars>>
    /\ Redraw

\* Enter in editor mode: newline()
KeyEnter ==
    /\ running
    /\ mode = "editor"
    /\ TextLen(buffer) + 1 <= MaxText
    /\ buffer' = Newline(buffer)
    /\ last' = Last("newline", <<>>, TRUE, FALSE)
    /\ Expire
    /\ undone' = None
    /\ running' = TRUE
    /\ UNCHANGED <<mode, fs, saved, screenVars, historyVars>>
    /\ Redraw

\* Backspace in editor mode: backspace()
KeyBackspace ==
    /\ running
    /\ mode = "editor"
    /\ buffer' = Backspace(buffer)
    /\ last' = Last("backspace", <<>>, BackspaceActs(buffer), FALSE)
    /\ Expire
    /\ undone' = None
    /\ running' = TRUE
    /\ UNCHANGED <<mode, fs, saved, screenVars, historyVars>>
    /\ Redraw

\* The str a character key inserts: four spaces for Tab.
Typed(ch) == IF Chr(ch) = "\t" THEN <<" ", " ", " ", " ">> ELSE <<Chr(ch)>>

\* Any other key 0..255 in editor mode: insert_char(); keys are the keys the
\* user presses.
KeyCharsUpTo(keys, max) ==
    /\ running
    /\ mode = "editor"
    /\ \E ch \in keys :
          /\ ch \notin {ESC, CTRL_Z, CTRL_U} \cup Arrows \cup EnterKeys
                       \cup BackspaceKeys
          /\ 0 <= ch /\ ch <= 255
          /\ TextLen(buffer) + Len(Typed(ch)) <= max
          /\ buffer' = InsertChar(buffer, Typed(ch))
          /\ last' = Last("insert_char", Typed(ch), TRUE, FALSE)
    /\ Expire
    /\ undone' = None
    /\ running' = TRUE
    /\ UNCHANGED <<mode, fs, saved, screenVars, historyVars>>
    /\ Redraw

KeyChars(keys) == KeyCharsUpTo(keys, MaxText)

KeyChar == KeyChars(InsertKeys)

Next ==
    \/ KeyEsc
    \/ KeyUndo
    \/ KeyRedo
    \/ KeyArrow
    \/ KeyI
    \/ KeyColon(CmdLines)
    \/ KeyOther
    \/ KeyEnter
    \/ KeyBackspace
    \/ KeyChar

Spec == Init /\ [][Next]_vars

\* The session of a user who types 'a' and Tab, moves and undoes, in a text
\* of at most TabText characters.
TabKeys == {9, 97}

NextTab ==
    \/ KeyEsc
    \/ KeyUndo
    \/ KeyArrow
    \/ KeyI
    \/ KeyCharsUpTo(TabKeys, TabText)

SpecTab == Init /\ [][NextTab]_vars

\* The session of a user who edits, opens a.py and the empty file e, undoes,
\* redoes and saves with `w`.
ReopenCmdLines ==
    { <<"w">>, <<"o", "p", "e", "n", " ">> \o FileA,
      <<"o", "p", "e", "n", " ">> \o FileE }

NextReopen ==
    \/ KeyEsc
    \/ KeyUndo
    \/ KeyRedo
    \/ KeyArrow
    \/ KeyI
    \/ KeyColon(ReopenCmdLines)
    \/ KeyBackspace
    \/ KeyChar

SpecReopen == Init /\ [][NextReopen]_vars

\* The whole session of a user who also presses ':' while in editor mode.
NextColon ==
    \/ KeyEsc
    \/ KeyUndo
    \/ KeyRedo
    \/ KeyArrow
    \/ KeyI
    \/ KeyColon(CmdLines)
    \/ KeyOther
    \/ KeyEnter
    \/ KeyBackspace
    \/ KeyChars(InsertKeys \cup {OrdColon})

SpecColon == Init /\ [][NextColon]_vars

\* The whole session of a user who also presses the character, Enter and
\* Backspace keys while in command mode.
NextNav ==
    \/ KeyEsc
    \/ KeyUndo
    \/ KeyRedo
    \/ KeyArrow
    \/ KeyI
    \/ KeyColon(CmdLines)
    \/ KeyOthers(OtherKeys \cup InsertKeys \cup EnterKeys \cup BackspaceKeys)
    \/ KeyEnter
    \/ KeyBackspace
    \/ KeyChar

SpecNav == Init /\ [][NextNav]_vars

(***************************************************************************)
(* Spec is the whole session.  The specifications below are the sessions   *)
(* of users who leave some of the keys and commands alone; they are small  *)
(* enough to be explored exhaustively.                                     *)
(***************************************************************************)
\* The session of a user who opens files and never writes one.
OpenCmdLines ==
    { <<"o", "p", "e", "n", " ">> \o FileA, <<"o", "p", "e", "n", " ">> \o FileB,
      <<"o", "p", "e", "n", " ">> \o FileE }

NextEdit ==
    \/ KeyEsc
    \/ KeyUndo
    \/ KeyRedo
    \/ KeyArrow
    \/ KeyI
    \/ KeyColon(OpenCmdLines)
    \/ KeyOther
    \/ KeyEnter
    \/ KeyBackspace
    \/ KeyChar

SpecEdit == Init /\ [][NextEdit]_vars

\* The session of a user who edits, saves, opens and quits, and never
\* undoes.
FileCmdLines ==
    { <<"w">>, <<"w", " ">> \o FileA, <<"w", "q">>,
      <<"q">>, <<"q", "!">>, <<"q", " ", "!">>,
      <<"o", "p", "e", "n", " ">> \o FileA,
      <<"o", "p", "e", "n", " ">> \o FileB }

NextFile ==
    \/ KeyEsc
    \/ KeyArrow
    \/ KeyI
    \/ KeyColon(FileCmdLines)
    \/ KeyEnter
    \/ KeyBackspace
    \/ KeyChar

SpecFile == Init /\ [][NextFile]_vars

\* The session of a user who edits, undoes, redoes and saves.
SaveCmdLines ==
    { <<"w">>, <<"w", " ">> \o FileA, <<"w", "q">> }

NextSave ==
    \/ KeyEsc
    \/ KeyUndo
    \/ KeyRedo
    \/ KeyArrow
    \/ KeyI
    \/ KeyColon(SaveCmdLines)
    \/ KeyEnter
    \/ KeyBackspace
    \/ KeyChar

SpecSave == Init /\ [][NextSave]_vars

(***************************************************************************)
(* SpecSaveCall: the session of SpecSave, in which Buffer.save is also     *)
(* called on the session's buffer directly, with or without a filename,    *)
(* as a caller of class Buffer may.  The call's `ret` is the exception     *)
(* raised, "" for none.                                                    *)
(***************************************************************************)
CallSave ==
    /\ running
    /\ \E filename \in {None, FileA}, io \in IOOutcomes :
          \E r \in {Save(buffer, filename, fs, io)} :
              /\ buffer' = r.buffer
              /\ fs' = r.fs
              /\ last' = Last("save", filename, r.exc, r.exc # "")
              /\ saved' = IF r.exc = "" THEN buffer.lines ELSE saved
    /\ undone' = None
    /\ UNCHANGED <<mode, status, msg_age, top_line, left_col, running,
                   screenVars, historyVars>>

NextSaveCall ==
    \/ KeyEsc
    \/ KeyUndo
    \/ KeyRedo
    \/ KeyArrow
    \/ KeyI
    \/ KeyColon(SaveCmdLines)
    \/ KeyEnter
    \/ KeyBackspace
    \/ KeyChar
    \/ CallSave

SpecSaveCall == Init /\ [][NextSaveCall]_vars

\* The session of a user who edits, undoes, redoes, saves to a.py and opens
\* it again.
LoadCmdLines ==
    { <<"w", " ">> \o FileA, <<"o", "p", "e", "n", " ">> \o FileA }

NextLoad ==
    \/ KeyEsc
    \/ KeyUndo
    \/ KeyRedo
    \/ KeyArrow
    \/ KeyI
    \/ KeyColon(LoadCmdLines)
    \/ KeyEnter
    \/ KeyBackspace
    \/ KeyChar

SpecLoad == Init /\ [][NextLoad]_vars

(***************************************************************************)
(* SpecBreaks: the session of SpecLoad, in which the Enter keys are among  *)
(* the keys pressed in editor mode and the 'char' keys of run_dumb's       *)
(* editor mode are pressed as well.  The two loops keep the same state and *)
(* a session runs one of them; here every step may come from either.       *)
(***************************************************************************)
\* The keys pressed in editor mode: line feed, carriage return and 'a'.
BreakKeys == {10, 13, 97}

\* What get_key() returns as ('char', val): "\r" is what a terminal that
\* does not translate it sends for Enter.  vals holds no backspace.
DumbChars == {"\n", "\r", "a"}

\* run_dumb, editor mode, ktype == 'char': '\n' is newline(), Tab is four
\* spaces, any other val is inserted.
DumbKeyChar(vals) ==
    /\ running
    /\ mode = "editor"
    /\ \E val \in vals :
          LET text == IF val = "\t" THEN <<" ", " ", " ", " ">> ELSE <<val>>
          IN  IF val = "\n"
              THEN /\ TextLen(buffer) + 1 <= MaxText
                   /\ buffer' = Newline(buffer)
                   /\ last' = Last("newline", <<>>, TRUE, FALSE)
              ELSE /\ TextLen(buffer) + Len(text) <= MaxText
                   /\ buffer' = InsertChar(buffer, text)
                   /\ last' = Last("insert_char", text, TRUE, FALSE)
    /\ Expire
    /\ undone' = None
    /\ running' = TRUE
    /\ UNCHANGED <<mode, fs, saved, screenVars, historyVars>>
    /\ Redraw

NextBreaks ==
    \/ KeyEsc
    \/ KeyUndo
    \/ KeyRedo
    \/ KeyArrow
    \/ KeyI
    \/ KeyColon(LoadCmdLines)
    \/ KeyEnter
    \/ KeyBackspace
    \/ KeyChars(BreakKeys)
    \/ DumbKeyChar(DumbChars)

SpecBreaks == Init /\ [][NextBreaks]_vars

(***************************************************************************)
(* SpecHistory: class Buffer driven directly.  From a buffer as            *)
(* constructed, or as left by load_from_file, and a cursor moved anywhere  *)
(* ("setup"), a sequence of at most MaxOps calls of insert_char /          *)
(* backspace / newline is made and logged ("ops"), then undo() is called   *)
(* repeatedly ("undo").                                                    *)
(***************************************************************************)
HistoryFile == <<"h">>

HistoryFS == [p \in {HistoryFile} |->
                 [exists |-> TRUE, data |-> <<"a", "b", "\n", "c", "d">>]]

InsertTexts == { <<"x">>, <<"x", "y">> }

InitHistory ==
    /\ fs = HistoryFS
    /\ buffer \in {NewBuffer(HistoryLimit),
                    LoadFromFile(NewBuffer(HistoryLimit), HistoryFile,
                                 HistoryFS, "ok").buffer}
    /\ mode = "editor"
    /\ status = ""
    /\ msg_age = 0
    /\ height = TermRows
    /\ width = TermCols
    /\ top_line = 0
    /\ left_col = 0
    /\ running = TRUE
    /\ last = Last("init", <<>>, TRUE, FALSE)
    /\ undone = None
    /\ saved = buffer.lines
    /\ phase = "setup"
    /\ opLog = <<>>
    /\ nUndo = 0

sessionVars ==
    <<mode, status, msg_age, top_line, left_col, running, fs, undone, saved,
      height, width>>

\* setup: the cursor is moved.
HMove ==
    /\ phase = "setup"
    /\ \E ch \in Arrows : buffer' = Move(ch, buffer)
    /\ last' = Last("move", <<>>, TRUE, FALSE)
    /\ UNCHANGED <<sessionVars, historyVars>>

\* What is logged of a call: the Snapshot before it, and whether it got to
\* push that Snapshot (backspace() at the document start returns before).
Logged(b, acted) == [pre |-> Snapshot(b), acted |-> acted]

HInsert ==
    /\ phase \in {"setup", "ops"}
    /\ Len(opLog) < MaxOps
    /\ \E text \in InsertTexts :
          /\ buffer' = InsertChar(buffer, text)
          /\ last' = Last("insert_char", text, TRUE, FALSE)
    /\ opLog' = Append(opLog, Logged(buffer, TRUE))
    /\ phase' = "ops"
    /\ UNCHANGED <<sessionVars, nUndo>>

HBackspace ==
    /\ phase \in {"setup", "ops"}
    /\ Len(opLog) < MaxOps
    /\ buffer' = Backspace(buffer)
    /\ last' = Last("backspace", <<>>, BackspaceActs(buffer), FALSE)
    /\ opLog' = Append(opLog, Logged(buffer, BackspaceActs(buffer)))
    /\ phase' = "ops"
    /\ UNCHANGED <<sessionVars, nUndo>>

HNewline ==
    /\ phase \in {"setup", "ops"}
    /\ Len(opLog) < MaxOps
    /\ buffer' = Newline(buffer)
    /\ last' = Last("newline", <<>>, TRUE, FALSE)
    /\ opLog' = Append(opLog, Logged(buffer, TRUE))
    /\ phase' = "ops"
    /\ UNCHANGED <<sessionVars, nUndo>>

\* One undo() more than operations were logged is allowed, to see what the
\* call after the last recoverable state does.
HUndo ==
    /\ phase \in {"ops", "undo"}
    /\ nUndo <= Len(opLog)
    /\ \E r \in {Undo(buffer)} :
          /\ buffer' = r.buffer
          /\ last' = Last("undo", <<>>, r.ret, FALSE)
    /\ nUndo' = nUndo + 1
    /\ phase' = "undo"
    /\ UNCHANGED <<sessionVars, opLog>>

NextHistory ==
    \/ HMove
    \/ HInsert
    \/ HBackspace
    \/ HNewline
    \/ HUndo

SpecHistory == InitHistory /\ [][NextHistory]_vars

(***************************************************************************)
(* SpecViewport: ensure_cursor_visible() from any scroll origin.  A file   *)
(* of y empty lines and one line of x characters has been loaded and the   *)
(* cursor moved to its end, in a terminal of any size with a text area;    *)
(* top_line and left_col are whatever earlier scrolling left.  The origin  *)
(* is recomputed, at once or after arrow keys.                             *)
(***************************************************************************)
ViewFile == <<"v">>

\* y empty lines, then a line of x characters, each ended by "\n".
ViewData(y, x) ==
    [i \in 1..(y + x + 1) |-> IF i <= y \/ i = y + x + 1 THEN "\n" ELSE "a"]

InitViewport ==
    /\ \E y \in 0..ViewMax, x \in 0..ViewMax :
          /\ fs = [p \in {ViewFile} |-> [exists |-> TRUE, data |-> ViewData(y, x)]]
          /\ buffer = [LoadFromFile(NewBuffer(UndoLimit), ViewFile, fs, "ok").buffer
                           EXCEPT !.cy = y, !.cx = x]
    /\ height \in 3..(3 + ViewExtra)
    /\ width \in 2..(2 + ViewExtra)
    /\ top_line \in 0..ViewMax
    /\ left_col \in 0..ViewMax
    /\ mode = "command"
    /\ status = ""
    /\ msg_age = 0
    /\ running = TRUE
    /\ last = Last("init", <<>>, TRUE, FALSE)
    /\ undone = None
    /\ saved = buffer.lines
    /\ phase = "setup"
    /\ opLog = <<>>
    /\ nUndo = 0

\* The head of the loop: ensure_cursor_visible()
Recompute ==
    /\ last.op = "init"
    /\ top_line' = EnsureCursorVisible(buffer, top_line, left_col)[1]
    /\ left_col' = EnsureCursorVisible(buffer, top_line, left_col)[2]
    /\ last' = Last("ensure_cursor_visible", <<>>, TRUE, FALSE)
    /\ UNCHANGED <<buffer, mode, status, msg_age, running, fs, undone, saved,
                   screenVars, historyVars>>

NextViewport ==
    \/ Recompute
    \/ KeyArrow

SpecViewport == InitViewport /\ [][NextViewport]_vars

(***************************************************************************)
(* SpecScroll: the session in terminals of several sizes, started on a     *)
(* file of several lines: the user moves, deletes backwards, undoes and    *)
(* redoes.                                                                 *)
(***************************************************************************)
InitScroll ==
    /\ \E y \in 0..ScrollRows, x \in 0..ScrollCols :
          fs = [p \in {ViewFile} |-> [exists |-> TRUE, data |-> ViewData(y, x)]]
    /\ buffer = Main(ViewFile, fs, "ok")
    /\ height \in 3..(3 + ScrollExtra)
    /\ width \in 2..(2 + ScrollExtra)
    /\ top_line = EnsureCursorVisible(buffer, 0, 0)[1]
    /\ left_col = EnsureCursorVisible(buffer, 0, 0)[2]
    /\ mode = "command"
    /\ status = ""
    /\ msg_age = 0
    /\ running = TRUE
    /\ last = Last("init", <<>>, TRUE, FALSE)
    /\ undone = None
    /\ saved = buffer.lines
    /\ phase = "setup"
    /\ opLog = <<>>
    /\ nUndo = 0

NextScroll ==
    \/ KeyEsc
    \/ KeyUndo
    \/ KeyRedo
    \/ KeyArrow
    \/ KeyI
    \/ KeyBackspace

SpecScroll == InitScroll /\ [][NextScroll]_vars

(***************************************************************************)
(* Undo restores the states before the operations, newest first.           *)
(***************************************************************************)
\* The logged calls that pushed a snapshot.
Acted(e) == e.acted

ActedOps == SelectSeq(opLog, Acted)

\* C1 as the spec states it: after N logged insert_char / backspace / newline
\* calls, the k-th undo() leaves the lines and the cursor of
\* before the (N-k+1)-th call, for k up to N and up to the undo limit; and
\* when N reaches the limit the undo() after those finds nothing.
C1_Original ==
    LET n   == Len(opLog)
        cap == buffer.undo_limit
    IN  phase = "undo" =>
          /\ (1 <= nUndo /\ nUndo <= Min(n, cap)) =>
                 Snapshot(buffer) = opLog[n - nUndo + 1].pre
          /\ (n > cap /\ nUndo = cap + 1) =>
                 /\ ~last.ret
                 /\ Snapshot(buffer) = opLog[n - cap + 1].pre

\* C1, amended: the same, N counting and the order ranging over the calls
\* other than a backspace at row 0, column 0 (which pushes nothing): the k-th
\* undo() leaves the lines and the cursor of before the (N-k+1)-th of them,
\* for k up to N and up to the undo limit, and when N reaches the limit the
\* undo() after those returns False and changes nothing.
C1_UndoReverses ==
    LET n   == Len(ActedOps)
        cap == buffer.undo_limit
    IN  phase = "undo" =>
          /\ (1 <= nUndo /\ nUndo <= Min(n, cap)) =>
                 Snapshot(buffer) = ActedOps[n - nUndo + 1].pre
          /\ (n >= cap /\ nUndo = cap + 1) =>
                 /\ ~last.ret
                 /\ Snapshot(buffer) = ActedOps[n - cap + 1].pre

\* The scenario of the spec: ["ab", "cd"] with the cursor at row 0, column
\* 2; newline, insert_char("xy"), undo, undo.
C1_Witness ==
    /\ phase = "undo"
    /\ nUndo = 2
    /\ Len(opLog) = 2
    /\ opLog[1] = Logged([lines |-> << <<"a", "b">>, <<"c", "d">> >>,
                          cx |-> 2, cy |-> 0], TRUE)
    /\ opLog[2] = Logged([lines |-> << <<"a", "b">>, <<>>, <<"c", "d">> >>,
                          cx |-> 0, cy |-> 1], TRUE)
    /\ Snapshot(buffer) = << << <<"a", "b">>, <<"c", "d">> >>, 2, 0 >>

(***************************************************************************)
(* Undo, redo and the editing keys in the session.                         *)
(***************************************************************************)
\* C2: when redo() is called right after an undo() that succeeded, it
\* succeeds, and the lines and the cursor after it are those of before the
\* undo().
C2_UndoRedoIdentity ==
    (last.op = "redo" /\ undone # None) =>
        /\ last.ret
        /\ Snapshot(buffer) = undone

\* Ctrl+U right after a Ctrl+Z that undid the typing of "a".
C2_Witness ==
    /\ last.op = "redo"
    /\ last.ret
    /\ undone = << << <<"a">> >>, 1, 0 >>
    /\ Snapshot(buffer) = undone
    /\ buffer.undo_stack # <<>>

\* The step l was the command `open F`.
IsOpen(l) == l.op = "handle_command" /\ MainOf(l.arg) = <<"o", "p", "e", "n">>

\* The step l was insert_char, newline, a backspace that got past the
\* document start, or load_from_file.
Mutating(l) ==
    \/ l.op \in {"insert_char", "newline"}
    \/ l.op = "backspace" /\ l.ret
    \/ IsOpen(l)

\* C3: after insert_char, newline, a backspace that is not the one at the
\* document start, or load_from_file, the redo stack is empty, and a redo()
\* called right after returns False, reports "Nothing to redo" and changes
\* nothing of the buffer.
C3_MutationClearsRedo ==
    /\ [](Mutating(last) => buffer.redo_stack = <<>>)
    /\ [][(Mutating(last) /\ last'.op = "redo") =>
              /\ ~last'.ret
              /\ status' = "Nothing to redo"
              /\ buffer' = buffer]_vars

\* "a" typed while the "Undo" of a Ctrl+Z is still on the status line: the
\* redo stack was not empty when insert_char was called.
C3_Witness ==
    /\ last.op = "insert_char"
    /\ status = "Undo"
    /\ buffer.redo_stack = <<>>
    /\ buffer.undo_stack # <<>>

\* C4: backspace() with the cursor at row 0, column 0 leaves the buffer as
\* it is: lines, cursor, changed, undo stack and redo stack.
C4_BackspaceAtStart ==
    [][(last'.op = "backspace" /\ buffer.cx = 0 /\ buffer.cy = 0) =>
           buffer' = buffer]_vars

\* Backspace at the document start of a changed buffer with something to
\* redo.
C4_Witness ==
    /\ last.op = "backspace"
    /\ ~last.ret
    /\ buffer.cx = 0
    /\ buffer.cy = 0
    /\ buffer.changed
    /\ buffer.redo_stack # <<>>

\* C10: `open F` whose open() raises leaves lines, cursor, filename, changed
\* and the mode as they were, sets the "Error opening" status and returns
\* True (the session continues).
C10_FailedOpen ==
    [][(IsOpen(last') /\ last'.exc) =>
           /\ buffer'.lines = buffer.lines
           /\ buffer'.cx = buffer.cx
           /\ buffer'.cy = buffer.cy
           /\ buffer'.filename = buffer.filename
           /\ buffer'.changed = buffer.changed
           /\ mode' = mode
           /\ status' = "Error opening"
           /\ last'.ret
           /\ running']_vars

\* `open b` (no such file) given in a changed buffer that has a filename and
\* whose cursor is not at the start.
C10_Witness ==
    /\ IsOpen(last)
    /\ last.exc
    /\ last.arg = <<"o", "p", "e", "n", " ">> \o FileB
    /\ status = "Error opening"
    /\ buffer.filename = FileA
    /\ buffer.changed
    /\ buffer.lines # << <<>> >>
    /\ buffer.cx > 0

(***************************************************************************)
(* Moving, saving, opening and quitting.                                   *)
(***************************************************************************)
\* The step l was a command that goes through save_file: `w` or `wq`.
IsSave(l) ==
    l.op = "handle_command" /\ MainOf(l.arg) \in {<<"w">>, <<"w", "q">>}

\* C5: move_left, move_right, move_up and move_down leave lines, changed,
\* the undo stack and the redo stack as they were; a save, whether it
\* succeeds or fails, leaves the undo stack, the redo stack, lines and the
\* cursor as they were.
C5_MoveAndSaveFrame ==
    [][/\ last'.op = "move" =>
              /\ buffer'.lines = buffer.lines
              /\ buffer'.changed = buffer.changed
              /\ buffer'.undo_stack = buffer.undo_stack
              /\ buffer'.redo_stack = buffer.redo_stack
       /\ IsSave(last') =>
              /\ buffer'.undo_stack = buffer.undo_stack
              /\ buffer'.redo_stack = buffer.redo_stack
              /\ buffer'.lines = buffer.lines
              /\ buffer'.cx = buffer.cx
              /\ buffer'.cy = buffer.cy]_vars

\* An arrow key pressed while "Saved" is still on the status line, in a
\* buffer with something to redo: the save and the move both happened with
\* history on the stacks, and the buffer is still unchanged since the save.
C5_Witness ==
    /\ last.op = "move"
    /\ status = "Saved"
    /\ buffer.redo_stack # <<>>
    /\ buffer.lines = << <<"a">> >>
    /\ buffer.cx = 0
    /\ ~buffer.changed

\* The command lines `w a.py` and `open a.py`.
WriteA == <<"w", " ">> \o FileA
OpenA == <<"o", "p", "e", "n", " ">> \o FileA

\* C6: when `w a.py` has saved the buffer and `open a.py` then loads the
\* file, the lines loaded are the lines saved: as many, and each the same
\* (no line of the model holds a line-break character).
C6_SaveLoadRoundTrip ==
    [][(/\ last.op = "handle_command" /\ last.arg = WriteA /\ ~last.exc
        /\ last'.op = "handle_command" /\ last'.arg = OpenA /\ ~last'.exc) =>
           buffer'.lines = buffer.lines]_vars

\* C7: the command line `q!` given while buffer.changed leaves the loop.
C7_ForcedQuitNoSpace ==
    [][(/\ last'.op = "handle_command"
        /\ last'.arg = <<"q", "!">>
        /\ buffer.changed) => ~running']_vars

\* C8: `q` given while buffer.changed returns True: the session continues,
\* the status is the warning about unsaved changes, and the buffer (lines,
\* cursor, changed, undo stack, redo stack) and the mode are as they were;
\* given while not buffer.changed it returns False and the loop is left.
C8_QuitRefusedWhenChanged ==
    [][(last'.op = "handle_command" /\ last'.arg = <<"q">>) =>
           IF buffer.changed
           THEN /\ last'.ret
                /\ running'
                /\ status' = "Unsaved changes. Use :q! to quit without saving."
                /\ buffer' = buffer
                /\ mode' = mode
           ELSE /\ ~last'.ret
                /\ ~running']_vars

\* `q` refused in a changed buffer.
C8_Witness ==
    /\ last.op = "handle_command"
    /\ last.arg = <<"q">>
    /\ last.ret
    /\ running
    /\ buffer.changed
    /\ buffer.undo_stack # <<>>
    /\ status = "Unsaved changes. Use :q! to quit without saving."

\* The step l was the forced quit, `q !`.
IsForcedQuit(l) ==
    /\ l.op = "handle_command"
    /\ MainOf(l.arg) = <<"q">>
    /\ Tail(Split(Strip(l.arg))) # <<>>
    /\ Tail(Split(Strip(l.arg)))[1] = <<"!">>

\* C9: when a command other than the forced quit has ended the session,
\* buffer.changed is false; and a `wq` whose save raised has not ended it.
C9_QuitOnlyWhenSaved ==
    (~running /\ last.op = "handle_command" /\ ~IsForcedQuit(last)) =>
        /\ ~buffer.changed
        /\ ~(MainOf(last.arg) = <<"w", "q">> /\ last.exc)

(***************************************************************************)
(* Invariants of the buffer.                                               *)
(***************************************************************************)
\* C11: the buffer always has at least one line, whatever edits, moves,
\* undos, redos, saves and loads (of an empty file too) came before.
C11_AtLeastOneLine ==
    Len(buffer.lines) >= 1

\* a.py, written empty, has just been loaded: the buffer is one empty line.
C11_Witness ==
    /\ last.op = "handle_command"
    /\ last.arg = OpenA
    /\ ~last.exc
    /\ fs[FileA] = [exists |-> TRUE, data |-> <<>>]
    /\ buffer.lines = << <<>> >>
    /\ buffer.filename = FileA

C13_Original ==
    buffer.changed <=> (buffer.lines # saved)

\* C13, amended: whenever the lines differ from those of the last save or
\* load that succeeded, buffer.changed is true (it may also be true while
\* they are equal: every edit, undo and redo sets it, whatever the result).
C13_ChangedWhenDifferent ==
    (buffer.lines # saved) => buffer.changed

\* The buffer right after `w a.py` saved an edited text: not changed, and
\* the lines are the saved ones; the undo stack holds a different text.
C13_Witness ==
    /\ last.op = "handle_command"
    /\ last.arg = WriteA
    /\ status = "Saved"
    /\ ~buffer.changed
    /\ buffer.lines = saved
    /\ buffer.undo_stack # <<>>
    /\ buffer.undo_stack[1][1] # buffer.lines

\* C14: the undo stack and the redo stack each hold at most undo_limit
\* snapshots, also after redo(), which pushes on the undo stack without
\* looking at the limit.
C14_StacksBounded ==
    /\ Len(buffer.undo_stack) <= buffer.undo_limit
    /\ Len(buffer.redo_stack) <= buffer.undo_limit

\* Ctrl+U has filled the undo stack up to the limit.
C14_Witness ==
    /\ last.op = "redo"
    /\ last.ret
    /\ Len(buffer.undo_stack) = buffer.undo_limit
    /\ buffer.redo_stack = <<>>

(***************************************************************************)
(* The viewport.                                                           *)
(***************************************************************************)
\* The step l ended in ensure_cursor_visible().
Recomputed(l) == l.op \in {"ensure_cursor_visible", "move"}

\* C15: after ensure_cursor_visible(), from any cursor, any earlier origin
\* and any terminal with a text area, the cursor is in the window:
\* top_line <= cy < top_line + (height - 2) and
\* left_col <= cx < left_col + (width - 1); and with 24 rows, the cursor on
\* row 50 and top_line 0 before, top_line is 29 after.
C15_CursorInWindow ==
    /\ Recomputed(last) =>
           /\ top_line <= buffer.cy
           /\ buffer.cy < top_line + (height - 2)
           /\ left_col <= buffer.cx
           /\ buffer.cx < left_col + (width - 1)
    /\ VisibleOrigin([cy |-> 50, cx |-> 0], 0, 0, 24, 80) = <<29, 0>>

\* The origin has been moved down and right to bring the cursor in: the
\* cursor is on the last row and the last column of the window.
C15_Witness ==
    /\ last.op = "ensure_cursor_visible"
    /\ height = 4
    /\ width = 3
    /\ top_line > 0
    /\ buffer.cy = top_line + (height - 3)
    /\ left_col > 0
    /\ buffer.cx = left_col + (width - 2)

\* The whole buffer b fits in the text area; every line of b is shorter
\* than the columns in use.
FitsRows(b) == Len(b.lines) <= height - 2

FitsCols(b) == \A i \in 1..Len(b.lines) : Len(b.lines[i]) < width - 1

\* C16 as the spec states it: whenever the buffer fits in the text area
\* top_line is 0, and whenever every line is shorter than the columns in use
\* left_col is 0.
C16_Original ==
    /\ FitsRows(buffer) => top_line = 0
    /\ FitsCols(buffer) => left_col = 0

\* C16, amended: ensure_cursor_visible() starts no scrolling while the buffer
\* fits: if top_line was 0 before it and the buffer fits in the text area,
\* top_line is 0 after it, and likewise left_col when every line is shorter
\* than the columns in use.  (An origin above 0 from when the buffer was
\* larger stays until the cursor moves before it.)
C16_NoScrollWhileFits ==
    [][/\ (top_line = 0 /\ FitsRows(buffer')) => top_line' = 0
       /\ (left_col = 0 /\ FitsCols(buffer')) => left_col' = 0]_vars

\* The cursor has been moved to the last row and past the last character of
\* a buffer that just fits, and nothing is scrolled.
C16_Witness ==
    /\ last.op = "move"
    /\ Len(buffer.lines) = height - 2
    /\ buffer.cy = height - 3
    /\ height > 3
    /\ Len(buffer.lines[buffer.cy + 1]) = width - 2
    /\ buffer.cx = width - 2
    /\ width > 2
    /\ FitsCols(buffer)
    /\ top_line = 0
    /\ left_col = 0

(***************************************************************************)
(* The modes.                                                              *)
(***************************************************************************)
\* C17: the mode is "command" at start; ESC sets it to "command" from either
\* mode; `i` is taken as the mode key only in "command" and sets it to
\* "editor"; no other key, neither Ctrl+Z nor Ctrl+U, and no command, failed
\* or not, changes it.
C17_ModeTransitions ==
    /\ [](last.op = "init" => mode = "command")
    /\ [][/\ last'.op = "esc" => mode' = "command"
          /\ last'.op = "set_mode" => (mode = "command" /\ mode' = "editor")
          /\ last'.op \notin {"esc", "set_mode"} => mode' = mode]_vars

\* `i` pressed to enter "editor" again, after "a" was typed there and ESC
\* left it.
C17_Witness ==
    /\ last.op = "set_mode"
    /\ mode = "editor"
    /\ buffer.filename = None
    /\ buffer.lines = << <<"a">> >>
    /\ buffer.redo_stack = <<>>
    /\ buffer.undo_stack = << << << <<>> >>, 0, 0 >> >>

\* C18: from "editor" mode no key reaches handle_command: the step of a key
\* pressed there is no command, does not end the session, writes no file and
\* neither loads nor saves the buffer; and ':' typed there goes into the
\* line at the cursor like any character.
C18_NoCommandInEditor ==
    [][mode = "editor" =>
          /\ last'.op # "handle_command"
          /\ running'
          /\ fs' = fs
          /\ buffer'.filename = buffer.filename
          /\ saved' = saved
          /\ (last'.op = "insert_char" /\ last'.arg = <<":">>) =>
                 /\ Len(buffer'.lines) = Len(buffer.lines)
                 /\ buffer'.lines[buffer.cy + 1] =
                        Prefix(buffer.lines[buffer.cy + 1], buffer.cx)
                            \o <<":">>
                            \o Suffix(buffer.lines[buffer.cy + 1], buffer.cx)
                 /\ buffer'.cy = buffer.cy
                 /\ buffer'.cx = buffer.cx + 1
                 /\ mode' = "editor"]_vars

\* ':' typed in "editor" mode is in the text, and the session goes on in
\* that mode.
C18_Witness ==
    /\ last.op = "insert_char"
    /\ last.arg = <<":">>
    /\ mode = "editor"
    /\ running
    /\ buffer.lines = << <<":">> >>
    /\ buffer.cx = 1

\* C19: a key pressed in "command" mode that is no arrow, 'i', ':', ESC,
\* Ctrl+Z or Ctrl+U changes nothing of the buffer (lines, cursor, changed,
\* both stacks) and not the mode; no step taken in "command" mode is
\* insert_char, backspace or newline; and lines change there only by undo,
\* redo or an open command.
C19_CommandModeFrame ==
    [][mode = "command" =>
          /\ last'.op \in {"esc", "undo", "redo", "move", "set_mode",
                           "handle_command", "ignored"}
          /\ last'.op = "ignored" => (buffer' = buffer /\ mode' = mode)
          /\ buffer'.lines # buffer.lines =>
                 (last'.op \in {"undo", "redo"} \/ IsOpen(last'))]_vars

\* A key was ignored in "command" mode with text in the buffer and a
\* snapshot on the undo stack.
C19_Witness ==
    /\ last.op = "ignored"
    /\ mode = "command"
    /\ running
    /\ buffer.lines = << <<"a">> >>
    /\ buffer.changed
    /\ buffer.undo_stack # <<>>

\* The step l was the command `w` with no argument.
IsBareW(l) == l.op = "handle_command" /\ Split(Strip(l.arg)) = << <<"w">> >>

\* C20: save() with no filename argument on a buffer whose filename is None
\* raises ValueError, leaves every file as it was and leaves the buffer
\* (changed, filename, lines, cursor, both stacks) as it was; the command
\* `w` on such a buffer sets the status "Specify filename: :w filename",
\* returns True and changes neither buffer nor files; a save that raises
\* nothing leaves changed False.
C20_SaveWithoutFilename ==
    [][/\ (last'.op = "save" /\ last'.arg = None /\ buffer.filename = None) =>
              /\ last'.ret = "ValueError"
              /\ fs' = fs
              /\ buffer' = buffer
       /\ (IsBareW(last') /\ buffer.filename = None) =>
              /\ status' = "Specify filename: :w filename"
              /\ last'.ret
              /\ running'
              /\ buffer' = buffer
              /\ fs' = fs
       /\ (last'.op = "save" /\ last'.exc = FALSE) => ~buffer'.changed
       /\ (IsSave(last') /\ status' = "Saved") => ~buffer'.changed]_vars

\* save() was called without a filename on an edited buffer that has none.
C20_Witness ==
    /\ last.op = "save"
    /\ last.arg = None
    /\ last.exc
    /\ buffer.filename = None
    /\ buffer.changed
    /\ buffer.undo_stack # <<>>
    /\ fs \in InitFS

(***************************************************************************)
(* Loading, Tab, and the filename under undo.                              *)
(***************************************************************************)
\* args[0] of the command line of step l.
ArgOf(l) == Split(Strip(l.arg))[2]

\* C21: an `open F` whose load raises nothing leaves the lines of F in the
\* buffer ("a" for a.py, one empty line for the empty file e), the cursor at
\* (0, 0), changed False and the filename F; and undo() called on the buffer
\* it leaves returns True and restores the lines and the cursor of before
\* the load.
C21_LoadThenUndo ==
    [][(IsOpen(last') /\ ~last'.exc) =>
           /\ ArgOf(last') = FileA => buffer'.lines = << <<"a">> >>
           /\ ArgOf(last') = FileE => buffer'.lines = << <<>> >>
           /\ buffer'.filename = ArgOf(last')
           /\ buffer'.cx = 0
           /\ buffer'.cy = 0
           /\ ~buffer'.changed
           /\ Undo(buffer').ret
           /\ Snapshot(Undo(buffer').buffer) = Snapshot(buffer)]_vars

\* The empty file was opened over an edited buffer whose cursor was not at
\* the start, and the undo that followed brought the text and cursor back.
C21_Witness ==
    /\ last.op = "undo"
    /\ last.ret
    /\ buffer.filename = FileE
    /\ buffer.lines = << <<"a">> >>
    /\ buffer.cx = 1
    /\ undone = << << <<>> >>, 0, 0 >>
    /\ buffer.redo_stack = << undone >>

FourSpaces == <<" ", " ", " ", " ">>

\* C22: the Tab key in "editor" mode puts four spaces, and never a tab
\* character, into the line at the cursor and moves the cursor four columns
\* right; the undo stack gains one entry, the snapshot of before the key
\* (its oldest entry goes if it was full); and undo() called on the buffer
\* the key leaves returns True and restores the lines and the cursor of
\* before the key.
C22_TabIsOneOperation ==
    /\ [](\A i \in 1..Len(buffer.lines) :
             \A j \in 1..Len(buffer.lines[i]) : buffer.lines[i][j] # "\t")
    /\ [][(last'.op = "insert_char" /\ last'.arg = FourSpaces) =>
              /\ mode = "editor"
              /\ buffer'.lines =
                     [buffer.lines EXCEPT ![buffer.cy + 1] =
                          Prefix(@, buffer.cx) \o FourSpaces
                              \o Suffix(@, buffer.cx)]
              /\ buffer'.cx = buffer.cx + 4
              /\ buffer'.cy = buffer.cy
              /\ buffer'.undo_stack =
                     Append(IF Len(buffer.undo_stack) < buffer.undo_limit
                            THEN buffer.undo_stack
                            ELSE Tail(buffer.undo_stack),
                            Snapshot(buffer))
              /\ Undo(buffer').ret
              /\ Snapshot(Undo(buffer').buffer) = Snapshot(buffer)]_vars

\* Tab was pressed with the cursor after an 'a', and the undo that followed
\* took the four spaces out again.
C22_Witness ==
    /\ last.op = "undo"
    /\ last.ret
    /\ buffer.lines = << <<"a">> >>
    /\ buffer.cx = 1
    /\ undone = << << <<"a">> \o FourSpaces >>, 5, 0 >>

\* C23: an `open F` whose open() raises leaves the undo stack and the redo
\* stack as they were before the command.
C23_FailedOpenKeepsHistory ==
    [][(IsOpen(last') /\ last'.exc) =>
           /\ buffer'.undo_stack = buffer.undo_stack
           /\ buffer'.redo_stack = buffer.redo_stack]_vars

\* C24: an `open F` given while buffer.changed is true loads nothing: lines,
\* cursor, filename and changed stay as they were and the status is not
\* "Opened".
C24_OpenRefusedWhenChanged ==
    [][(IsOpen(last') /\ Tail(Split(Strip(last'.arg))) # <<>> /\ buffer.changed) =>
           /\ buffer'.lines = buffer.lines
           /\ buffer'.cx = buffer.cx
           /\ buffer'.cy = buffer.cy
           /\ buffer'.filename = buffer.filename
           /\ buffer'.changed = buffer.changed
           /\ status' # "Opened"]_vars

C26_UndoKeepsFilename ==
    /\ [][last'.op \in {"undo", "redo"} =>
              buffer'.filename = buffer.filename]_vars
    /\ [][(IsOpen(last) /\ ~last.exc /\ last'.op = "undo") =>
              /\ last'.ret
              /\ buffer'.lines = buffer.undo_stack[Len(buffer.undo_stack)][1]
              /\ buffer'.filename = ArgOf(last)
              /\ LET r == HandleCommand(<<"w">>, buffer', fs', "ok")
                 IN  /\ r.msg = "Saved"
                     /\ r.fs[ArgOf(last)].data = JoinLines(buffer'.lines)
                     /\ r.buffer.lines = buffer'.lines]_vars
    /\ [][(IsBareW(last') /\ status' = "Saved") =>
              /\ buffer'.filename = buffer.filename
              /\ fs'[buffer.filename].data = JoinLines(buffer.lines)]_vars

\* "a" was typed, the empty file e was opened and the open undone, and `w`
\* has written "a" to e.
C26_Witness ==
    /\ IsBareW(last)
    /\ status = "Saved"
    /\ buffer.filename = FileE
    /\ buffer.lines = << <<"a">> >>
    /\ fs[FileE].data = <<"a">>
    /\ buffer.redo_stack = << << << <<>> >>, 0, 0 >> >>
    /\ buffer.undo_stack = <<>>

=============================================================================
